---- MODULE Spec2Model ----
(***************************************************************************)
(* The Olist batch pipeline (etl_olist_sqlalchemy.py / ingestao_dados.py): *)
(* staging load, dimension upserts and fact upserts, as a state machine    *)
(* over the staging and warehouse tables.                                  *)
(*                                                                         *)
(* A column value is NULL (the empty tuple) or V(x) (a one-element tuple). *)
(* A staging table is a sequence of rows (duplicates allowed, as the       *)
(* staging relations carry no key).  A warehouse table is a set of rows.   *)
(*                                                                         *)
(* The data-quality monitor (dq_monitor_olist.py) reads the same database: *)
(* main() evaluates the rules of five categories one after the other.      *)
(***************************************************************************)
EXTENDS Integers, Sequences, FiniteSets, TLC

VARIABLES
    data_dir,         \* the staging tables whose CSV file exists in DATA_DIR
    stage,            \* olist_stage: table name -> sequence of rows
    dim_date,         \* olist_dw.dim_date
    dim_customer,     \* olist_dw.dim_customer
    dim_seller,       \* olist_dw.dim_seller
    dim_product,      \* olist_dw.dim_product
    fact_order_item,  \* olist_dw.fact_order_item
    fact_payment,     \* olist_dw.fact_payment
    sk_seq,           \* last value drawn from each surrogate-key sequence
    pc,               \* the statement the running pipeline executes next
    entry,            \* the entry point of the current/last invocation
    steps,            \* the steps completed by the current/last invocation
    err,              \* the exception that ended the last invocation, or "none"
    resolved,         \* the dimension upserts have run against these staging contents
    before,           \* the warehouse (and resolved) when the current/last invocation began
    runs,             \* invocations started so far
    mon,              \* the monitor: the function main() calls next
    report,           \* the monitor: output file -> the results written to it
    dq_err            \* the monitor: the function whose exception ended main()

vars == <<data_dir, stage, dim_date, dim_customer, dim_seller, dim_product,
          fact_order_item, fact_payment, sk_seq, pc, entry, steps, err,
          resolved, before, runs, mon, report, dq_err>>

\* The state of the pipeline and of the database it writes.
etl == <<data_dir, stage, dim_date, dim_customer, dim_seller, dim_product,
         fact_order_item, fact_payment, sk_seq, pc, entry, steps, err,
         resolved, before, runs>>

\* The state of the monitor.
monitor == <<mon, report, dq_err>>

warehouse == <<dim_date, dim_customer, dim_seller, dim_product,
               fact_order_item, fact_payment>>

\* What an invocation remembers of the state it began in.
Began(r) ==
    [dim_date |-> dim_date, dim_customer |-> dim_customer,
     dim_seller |-> dim_seller, dim_product |-> dim_product,
     fact_order_item |-> fact_order_item, fact_payment |-> fact_payment,
     resolved |-> r]

\* ------------------------------------------------------------------ bounds

\* Invocations (run() or transform_load_dw()) per behaviour.
MaxRuns == 2

\* Rows of the one staging table a snapshot varies.
MaxRows == 2

\* CSV files that may be absent from DATA_DIR at one load.
MaxMissing == 1

\* ------------------------------------------------------------------ SQL values

NULL == <<>>

V(x) == <<x>>

\* COALESCE(a, b)
COALESCE(a, b) == IF a # NULL THEN a ELSE b

\* a = b in a join condition: never true on NULL
SqlEq(a, b) == a # NULL /\ b # NULL /\ a = b

\* DATE(ts): the calendar date of a timestamp; NULL for NULL.  A timestamp
\* is a count of half-days since 2018-01-01 00:00, a date a count of days.
DATE(ts) == IF ts = NULL THEN NULL ELSE V(ts[1] \div 2)

\* The set of rows of a staging table (what SELECT DISTINCT * keeps).
Range(s) == {s[i] : i \in DOMAIN s}

SeqsUpTo(S, n) == UNION {[1..k -> S] : k \in 0..n}

\* ------------------------------------------------------------------ staging

\* FILES, in the order the dict is walked
FILES == << "raw_customers", "raw_orders", "raw_order_items", "raw_products",
            "raw_sellers", "raw_payments", "raw_reviews",
            "raw_category_translation" >>

Tables == Range(FILES)

\* Row universes of the staging tables (the columns the pipeline and the
\* monitor read).  Natural keys are non-null here.
CustomerRows ==
    [customer_id : {V("c1"), V("c2")}, customer_unique_id : {V("u1")},
     customer_zip_code_prefix : {V("01000")},
     customer_city : {NULL, V("sao paulo"), V("campinas")},
     customer_state : {V("SP")}]

SellerRows ==
    [seller_id : {V("s1")}, seller_zip_code_prefix : {V("02000")},
     seller_city : {NULL, V("santos")}, seller_state : {NULL, V("SP")}]

ProductRows ==
    [product_id : {V("p1")}, product_category_name : {NULL, V("beleza")},
     product_weight_g : {NULL, V(100)}, product_length_cm : {V(10)},
     product_height_cm : {V(10)}, product_width_cm : {V(10)}]

TranslationRows ==
    [product_category_name : {V("beleza")},
     product_category_name_english : {V("beauty"), V("health_beauty")}]

OrderRows ==
    [order_id : {V("o1")}, customer_id : {V("c1"), V("c2")},
     order_status : {V("shipped"), V("delivered")},
     order_purchase_timestamp : {V(0)}, order_approved_at : {V(1)},
     order_delivered_customer_date : {NULL, V(6)},
     order_estimated_delivery_date : {V(8)}]

ItemRows ==
    [order_id : {V("o1")}, order_item_id : {V(1), V(2)},
     product_id : {V("p1"), V("p2")}, seller_id : {V("s1")},
     shipping_limit_date : {V(4)}, price : {V(10), V(20)},
     freight_value : {V(5)}]

PaymentRows ==
    [order_id : {V("o1"), V("o2")}, payment_sequential : {V(1)},
     payment_type : {V("credit_card")}, payment_installments : {V(1)},
     payment_value : {V(15), V(25)}]

ReviewRows ==
    [review_creation_date : {V(7)}, review_answer_timestamp : {NULL, V(9)}]

Rows(t) ==
    CASE t = "raw_customers" -> CustomerRows
      [] t = "raw_orders" -> OrderRows
      [] t = "raw_order_items" -> ItemRows
      [] t = "raw_products" -> ProductRows
      [] t = "raw_sellers" -> SellerRows
      [] t = "raw_payments" -> PaymentRows
      [] t = "raw_reviews" -> ReviewRows
      [] t = "raw_category_translation" -> TranslationRows

\* A consistent extract: one order of one item, paid once, every parent present.
Baseline ==
    [t \in Tables |->
       CASE t = "raw_customers" ->
              << [customer_id |-> V("c1"), customer_unique_id |-> V("u1"),
                  customer_zip_code_prefix |-> V("01000"),
                  customer_city |-> V("sao paulo"), customer_state |-> V("SP")] >>
         [] t = "raw_orders" ->
              << [order_id |-> V("o1"), customer_id |-> V("c1"),
                  order_status |-> V("shipped"), order_purchase_timestamp |-> V(0),
                  order_approved_at |-> V(1), order_delivered_customer_date |-> NULL,
                  order_estimated_delivery_date |-> V(8)] >>
         [] t = "raw_order_items" ->
              << [order_id |-> V("o1"), order_item_id |-> V(1), product_id |-> V("p1"),
                  seller_id |-> V("s1"), shipping_limit_date |-> V(4),
                  price |-> V(10), freight_value |-> V(5)] >>
         [] t = "raw_products" ->
              << [product_id |-> V("p1"), product_category_name |-> V("beleza"),
                  product_weight_g |-> V(100), product_length_cm |-> V(10),
                  product_height_cm |-> V(10), product_width_cm |-> V(10)] >>
         [] t = "raw_sellers" ->
              << [seller_id |-> V("s1"), seller_zip_code_prefix |-> V("02000"),
                  seller_city |-> V("santos"), seller_state |-> V("SP")] >>
         [] t = "raw_payments" ->
              << [order_id |-> V("o1"), payment_sequential |-> V(1),
                  payment_type |-> V("credit_card"), payment_installments |-> V(1),
                  payment_value |-> V(15)] >>
         [] t = "raw_reviews" ->
              << [review_creation_date |-> V(7), review_answer_timestamp |-> V(9)] >>
         [] t = "raw_category_translation" ->
              << [product_category_name |-> V("beleza"),
                  product_category_name_english |-> V("beauty")] >>]

\* The extracts that differ from Baseline in one table of ts, that table
\* holding any rows of its universe, up to MaxRows of them.
Perturbed(ts) ==
    UNION {{[Baseline EXCEPT ![t] = s] : s \in SeqsUpTo(Rows(t), MaxRows)} : t \in ts}

\* Extracts that vary a source of the dimensions.
DimSnapshots ==
    Perturbed({"raw_customers", "raw_sellers", "raw_products",
               "raw_category_translation"})

\* Extracts that vary a source of the facts.
FactSnapshots ==
    Perturbed({"raw_orders", "raw_order_items", "raw_payments", "raw_reviews"})

\* The sets of CSV files that may be absent at a load.
MissingSets == {m \in SUBSET Tables : Cardinality(m) <= MaxMissing}

\* ------------------------------------------------------------------ control

NoError == [type |-> "none", at |-> "none"]

\* Mutant: insert_fact_items is called before upsert_dim_product.
NextStep_FactsFirst(s) ==
    CASE s = "upsert_dim_date" -> "upsert_dim_customer"
      [] s = "upsert_dim_customer" -> "upsert_dim_seller"
      [] s = "upsert_dim_seller" -> "insert_fact_items"
      [] s = "insert_fact_items" -> "upsert_dim_product"
      [] s = "upsert_dim_product" -> "insert_fact_payments"
      [] s = "insert_fact_payments" -> "idle"

\* transform_load_dw(): the statement that follows each statement
NextStep(s) ==
    CASE s = "upsert_dim_date" -> "upsert_dim_customer"
      [] s = "upsert_dim_customer" -> "upsert_dim_seller"
      [] s = "upsert_dim_seller" -> "upsert_dim_product"
      [] s = "upsert_dim_product" -> "insert_fact_items"
      [] s = "insert_fact_items" -> "insert_fact_payments"
      [] s = "insert_fact_payments" -> "idle"

DimSteps == {"upsert_dim_date", "upsert_dim_customer", "upsert_dim_seller",
             "upsert_dim_product"}

FactSteps == {"insert_fact_items", "insert_fact_payments"}

\* The statement s returned: go on with the next one.
Completes(s) ==
    /\ pc' = NextStep(s)
    /\ steps' = steps \cup {s}
    /\ err' = NoError
    /\ resolved' = IF s = "upsert_dim_product" THEN TRUE ELSE resolved
    /\ UNCHANGED monitor

\* The statement s raised: the exception leaves run() / transform_load_dw().
Raises(s, type) ==
    /\ pc' = "idle"
    /\ steps' = steps
    /\ err' = [type |-> type, at |-> s]
    /\ resolved' = IF s \in DimSteps THEN TRUE ELSE resolved
    /\ UNCHANGED monitor

\* ------------------------------------------------------------------ load_staging

\* Mutant: copy_from_csv does not check csv_path.exists().
FirstMissing_Ignored(present) == Len(FILES) + 1

\* The position in FILES of the first file missing from DATA_DIR
\* (Len(FILES) + 1 when none is).
FirstMissing(present) ==
    IF \A i \in DOMAIN FILES : FILES[i] \in present
    THEN Len(FILES) + 1
    ELSE CHOOSE i \in DOMAIN FILES :
           /\ FILES[i] \notin present
           /\ \A j \in 1..(i - 1) : FILES[j] \in present

\* The tables load_staging copies: copy_from_csv raises at the first missing
\* file, which ends the loop.
Copied(present) == {FILES[i] : i \in 1..(FirstMissing(present) - 1)}

\* run(), first statement: TRUNCATE every staging table, then COPY each CSV
\* in FILES order.  csv: the extract in DATA_DIR; miss: the files absent.
load_staging(Inputs) ==
    /\ pc = "idle"
    /\ runs < MaxRuns
    /\ \E csv \in Inputs, miss \in MissingSets :
         LET present == Tables \ miss
         IN  /\ data_dir' = present
             /\ stage' = [t \in Tables |->
                            IF t \in Copied(present) THEN csv[t] ELSE << >>]
             /\ IF FirstMissing(present) <= Len(FILES)
                THEN /\ pc' = "idle"
                     /\ steps' = {}
                     /\ err' = [type |-> "FileNotFoundError",
                                at |-> FILES[FirstMissing(present)]]
                ELSE /\ pc' = "upsert_dim_date"
                     /\ steps' = {"load_staging"}
                     /\ err' = NoError
    /\ entry' = "run"
    /\ resolved' = (resolved /\ stage' = stage)
    /\ before' = Began(resolved')
    /\ runs' = runs + 1
    /\ UNCHANGED <<warehouse, sk_seq, monitor>>

\* transform_load_dw() called on the staging tables as they are.
transform_load_dw ==
    /\ pc = "idle"
    /\ runs < MaxRuns
    /\ pc' = "upsert_dim_date"
    /\ entry' = "transform_load_dw"
    /\ steps' = {}
    /\ err' = NoError
    /\ before' = Began(resolved)
    /\ runs' = runs + 1
    /\ UNCHANGED <<data_dir, stage, warehouse, sk_seq, resolved, monitor>>

\* ------------------------------------------------------------------ INSERT ... ON CONFLICT

SameKey(a, b, keys) == \A k \in keys : a[k] = b[k]

\* The orders in which a statement may propose the rows of S.
Orderings(S) ==
    {f \in [1..Cardinality(S) -> S] : \A x \in S : \E i \in DOMAIN f : f[i] = x}

\* Two proposed rows carry the same conflict key: PostgreSQL raises
\* "ON CONFLICT DO UPDATE command cannot affect row a second time".
\* (ord: the proposed rows, indexed by their position or by the joined
\* source rows they come from.)
CardinalityViolation(ord, keys) ==
    \E i, j \in DOMAIN ord : i # j /\ SameKey(ord[i], ord[j], keys)

\* The rows proposed up to and including the one that raises.
ProposedBeforeError(ord, keys) ==
    CHOOSE j \in DOMAIN ord :
      /\ \E i \in 1..(j - 1) : SameKey(ord[i], ord[j], keys)
      /\ \A k \in 1..(j - 1) : ~ \E i \in 1..(k - 1) : SameKey(ord[i], ord[k], keys)

\* The proposed rows with their surrogate key default: the i-th draws the
\* i-th next value of the sequence.
WithSk(ord, sk, last) ==
    {[f \in DOMAIN ord[i] \cup {sk} |-> IF f = sk THEN last + i ELSE ord[i][f]] :
       i \in DOMAIN ord}

\* INSERT proposed ON CONFLICT (keys) DO UPDATE SET ...: the rows of tbl no
\* proposed row conflicts with, the pairs <<existing row, proposed row>>
\* that conflict (the SET list is applied to these), and the proposed rows
\* that are inserted.
Untouched(tbl, proposed, keys) ==
    {t \in tbl : ~ \E x \in proposed : SameKey(x, t, keys)}

Conflicts(tbl, proposed, keys) ==
    {tx \in tbl \X proposed : SameKey(tx[2], tx[1], keys)}

\* Mutant: a proposed row is inserted whether or not its key is taken.
Inserted_Regardless(tbl, proposed, keys) == proposed

Inserted(tbl, proposed, keys) ==
    {x \in proposed : ~ \E t \in tbl : SameKey(x, t, keys)}

\* INSERT proposed ON CONFLICT (keys) DO NOTHING
OnConflictDoNothing(tbl, proposed, keys) ==
    tbl \cup Inserted(tbl, proposed, keys)

\* ------------------------------------------------------------------ dimensions

\* The dim_date row of day d (days since 2018-01-01, a Monday; d < 31).
DateRow(d) ==
    [date_id |-> V(d), year |-> 2018, quarter |-> ((1 - 1) \div 3) + 1,
     month |-> 1, day |-> d + 1, week |-> (d \div 7) + 1, dow |-> (d + 1) % 7]

\* The non-null DATE(col) of the rows of a staging table.
DatesOf(t, col) ==
    {DATE(r[col])[1] : r \in {x \in Range(stage[t]) : x[col] # NULL}}

\* Mutant: the dates of raw_order_items are left out of the UNION.
upsert_dim_date_select_OrdersOnly ==
    DatesOf("raw_orders", "order_purchase_timestamp")
    \cup DatesOf("raw_orders", "order_approved_at")
    \cup DatesOf("raw_orders", "order_delivered_customer_date")
    \cup DatesOf("raw_orders", "order_estimated_delivery_date")
    \cup DatesOf("raw_reviews", "review_creation_date")
    \cup DatesOf("raw_reviews", "review_answer_timestamp")

\* WITH d AS (... UNION ...)
upsert_dim_date_select ==
    DatesOf("raw_orders", "order_purchase_timestamp")
    \cup DatesOf("raw_orders", "order_approved_at")
    \cup DatesOf("raw_orders", "order_delivered_customer_date")
    \cup DatesOf("raw_orders", "order_estimated_delivery_date")
    \cup DatesOf("raw_order_items", "shipping_limit_date")
    \cup DatesOf("raw_reviews", "review_creation_date")
    \cup DatesOf("raw_reviews", "review_answer_timestamp")

upsert_dim_date ==
    /\ pc = "upsert_dim_date"
    /\ dim_date' = OnConflictDoNothing(dim_date,
                     {DateRow(d) : d \in upsert_dim_date_select}, {"date_id"})
    /\ Completes("upsert_dim_date")
    /\ UNCHANGED <<data_dir, stage, dim_customer, dim_seller, dim_product,
                   fact_order_item, fact_payment, sk_seq, entry, before, runs>>

\* SELECT DISTINCT customer_id, ... FROM olist_stage.raw_customers
upsert_dim_customer_select ==
    {[customer_id |-> r.customer_id,
      customer_unique_id |-> r.customer_unique_id,
      zip_prefix |-> r.customer_zip_code_prefix,
      city |-> r.customer_city,
      state |-> r.customer_state] : r \in Range(stage.raw_customers)}

\* Mutant: the COALESCE arguments are swapped (the existing value wins).
upsert_dim_customer_set_KeepExisting(t, EXCLUDED) ==
    [t EXCEPT !.customer_unique_id = COALESCE(@, EXCLUDED.customer_unique_id),
              !.zip_prefix = COALESCE(@, EXCLUDED.zip_prefix),
              !.city = COALESCE(@, EXCLUDED.city),
              !.state = COALESCE(@, EXCLUDED.state)]

\* ON CONFLICT (customer_id) DO UPDATE SET ...
upsert_dim_customer_set(t, EXCLUDED) ==
    [t EXCEPT !.customer_unique_id = COALESCE(EXCLUDED.customer_unique_id, @),
              !.zip_prefix = COALESCE(EXCLUDED.zip_prefix, @),
              !.city = COALESCE(EXCLUDED.city, @),
              !.state = COALESCE(EXCLUDED.state, @)]

upsert_dim_customer ==
    /\ pc = "upsert_dim_customer"
    /\ \E ord \in Orderings(upsert_dim_customer_select) :
         IF CardinalityViolation(ord, {"customer_id"})
         THEN /\ Raises("upsert_dim_customer", "CardinalityViolation")
              /\ sk_seq' = [sk_seq EXCEPT !.customer =
                              @ + ProposedBeforeError(ord, {"customer_id"})]
              /\ dim_customer' = dim_customer
         ELSE /\ Completes("upsert_dim_customer")
              /\ sk_seq' = [sk_seq EXCEPT !.customer = @ + Len(ord)]
              /\ dim_customer' =
                   LET proposed == WithSk(ord, "customer_sk", sk_seq.customer)
                       keys == {"customer_id"}
                   IN  Untouched(dim_customer, proposed, keys)
                       \cup {upsert_dim_customer_set(tx[1], tx[2]) :
                               tx \in Conflicts(dim_customer, proposed, keys)}
                       \cup Inserted(dim_customer, proposed, keys)
    /\ UNCHANGED <<data_dir, stage, dim_date, dim_seller, dim_product,
                   fact_order_item, fact_payment, entry, before, runs>>

\* SELECT DISTINCT seller_id, ... FROM olist_stage.raw_sellers
upsert_dim_seller_select ==
    {[seller_id |-> r.seller_id,
      zip_prefix |-> r.seller_zip_code_prefix,
      city |-> r.seller_city,
      state |-> r.seller_state] : r \in Range(stage.raw_sellers)}

\* Mutant: the SET list assigns EXCLUDED.col without COALESCE.
upsert_dim_seller_set_Overwrite(t, EXCLUDED) ==
    [t EXCEPT !.zip_prefix = EXCLUDED.zip_prefix,
              !.city = EXCLUDED.city,
              !.state = EXCLUDED.state]

\* ON CONFLICT (seller_id) DO UPDATE SET ...
upsert_dim_seller_set(t, EXCLUDED) ==
    [t EXCEPT !.zip_prefix = COALESCE(EXCLUDED.zip_prefix, @),
              !.city = COALESCE(EXCLUDED.city, @),
              !.state = COALESCE(EXCLUDED.state, @)]

upsert_dim_seller ==
    /\ pc = "upsert_dim_seller"
    /\ \E ord \in Orderings(upsert_dim_seller_select) :
         IF CardinalityViolation(ord, {"seller_id"})
         THEN /\ Raises("upsert_dim_seller", "CardinalityViolation")
              /\ sk_seq' = [sk_seq EXCEPT !.seller =
                              @ + ProposedBeforeError(ord, {"seller_id"})]
              /\ dim_seller' = dim_seller
         ELSE /\ Completes("upsert_dim_seller")
              /\ sk_seq' = [sk_seq EXCEPT !.seller = @ + Len(ord)]
              /\ dim_seller' =
                   LET proposed == WithSk(ord, "seller_sk", sk_seq.seller)
                       keys == {"seller_id"}
                   IN  Untouched(dim_seller, proposed, keys)
                       \cup {upsert_dim_seller_set(tx[1], tx[2]) :
                               tx \in Conflicts(dim_seller, proposed, keys)}
                       \cup Inserted(dim_seller, proposed, keys)
    /\ UNCHANGED <<data_dir, stage, dim_date, dim_customer, dim_product,
                   fact_order_item, fact_payment, entry, before, runs>>

\* SELECT DISTINCT p.product_id, ..., t.product_category_name_english, ...
\* FROM raw_products p LEFT JOIN raw_category_translation t ON ...
upsert_dim_product_select ==
    LET P == stage.raw_products
        T == stage.raw_category_translation
        Matches(i) == {j \in DOMAIN T :
                         SqlEq(T[j].product_category_name,
                               P[i].product_category_name)}
        Row(p, en) == [product_id |-> p.product_id,
                       category_name |-> p.product_category_name,
                       category_name_en |-> en,
                       weight_g |-> p.product_weight_g,
                       length_cm |-> p.product_length_cm,
                       height_cm |-> p.product_height_cm,
                       width_cm |-> p.product_width_cm]
    IN  UNION {IF Matches(i) = {}
               THEN {Row(P[i], NULL)}
               ELSE {Row(P[i], T[j].product_category_name_english) :
                       j \in Matches(i)} : i \in DOMAIN P}

\* ON CONFLICT (product_id) DO UPDATE SET ...
upsert_dim_product_set(t, EXCLUDED) ==
    [t EXCEPT !.category_name = COALESCE(EXCLUDED.category_name, @),
              !.category_name_en = COALESCE(EXCLUDED.category_name_en, @),
              !.weight_g = COALESCE(EXCLUDED.weight_g, @),
              !.length_cm = COALESCE(EXCLUDED.length_cm, @),
              !.height_cm = COALESCE(EXCLUDED.height_cm, @),
              !.width_cm = COALESCE(EXCLUDED.width_cm, @)]

upsert_dim_product ==
    /\ pc = "upsert_dim_product"
    /\ \E ord \in Orderings(upsert_dim_product_select) :
         IF CardinalityViolation(ord, {"product_id"})
         THEN /\ Raises("upsert_dim_product", "CardinalityViolation")
              /\ sk_seq' = [sk_seq EXCEPT !.product =
                              @ + ProposedBeforeError(ord, {"product_id"})]
              /\ dim_product' = dim_product
         ELSE /\ Completes("upsert_dim_product")
              /\ sk_seq' = [sk_seq EXCEPT !.product = @ + Len(ord)]
              /\ dim_product' =
                   LET proposed == WithSk(ord, "product_sk", sk_seq.product)
                       keys == {"product_id"}
                   IN  Untouched(dim_product, proposed, keys)
                       \cup {upsert_dim_product_set(tx[1], tx[2]) :
                               tx \in Conflicts(dim_product, proposed, keys)}
                       \cup Inserted(dim_product, proposed, keys)
    /\ UNCHANGED <<data_dir, stage, dim_date, dim_customer, dim_seller,
                   fact_order_item, fact_payment, entry, before, runs>>

\* ------------------------------------------------------------------ facts

\* Mutant: raw_products is joined without its ON condition.
insert_fact_items_join_AnyProduct ==
    LET I == stage.raw_order_items
        O == stage.raw_orders
        C == stage.raw_customers
        S == stage.raw_sellers
        P == stage.raw_products
    IN  {j \in [i : DOMAIN I, o : DOMAIN O, c : DOMAIN C, s : DOMAIN S,
                p : DOMAIN P, dc : dim_customer, ds : dim_seller,
                dp : dim_product] :
           /\ SqlEq(O[j.o].order_id, I[j.i].order_id)
           /\ SqlEq(C[j.c].customer_id, O[j.o].customer_id)
           /\ SqlEq(S[j.s].seller_id, I[j.i].seller_id)
           /\ SqlEq(j.dc.customer_id, C[j.c].customer_id)
           /\ SqlEq(j.ds.seller_id, S[j.s].seller_id)
           /\ SqlEq(j.dp.product_id, P[j.p].product_id)}

\* FROM raw_order_items i JOIN raw_orders o ... JOIN dim_product dp ...:
\* one element per combination of source rows that satisfies every ON.
insert_fact_items_join ==
    LET I == stage.raw_order_items
        O == stage.raw_orders
        C == stage.raw_customers
        S == stage.raw_sellers
        P == stage.raw_products
    IN  {j \in [i : DOMAIN I, o : DOMAIN O, c : DOMAIN C, s : DOMAIN S,
                p : DOMAIN P, dc : dim_customer, ds : dim_seller,
                dp : dim_product] :
           /\ SqlEq(O[j.o].order_id, I[j.i].order_id)
           /\ SqlEq(C[j.c].customer_id, O[j.o].customer_id)
           /\ SqlEq(S[j.s].seller_id, I[j.i].seller_id)
           /\ SqlEq(P[j.p].product_id, I[j.i].product_id)
           /\ SqlEq(j.dc.customer_id, C[j.c].customer_id)
           /\ SqlEq(j.ds.seller_id, S[j.s].seller_id)
           /\ SqlEq(j.dp.product_id, P[j.p].product_id)}

\* The SELECT list, for one joined combination.
insert_fact_items_select(j) ==
    LET i == stage.raw_order_items[j.i]
        o == stage.raw_orders[j.o]
    IN  [order_id |-> i.order_id,
         order_item_id |-> i.order_item_id,
         customer_sk |-> j.dc.customer_sk,
         seller_sk |-> j.ds.seller_sk,
         product_sk |-> j.dp.product_sk,
         purchase_date_id |-> DATE(o.order_purchase_timestamp),
         approved_date_id |-> DATE(o.order_approved_at),
         shipping_limit_date_id |-> DATE(i.shipping_limit_date),
         delivered_customer_date_id |-> DATE(o.order_delivered_customer_date),
         estimated_delivery_date_id |-> DATE(o.order_estimated_delivery_date),
         order_status |-> o.order_status,
         price |-> i.price,
         freight_value |-> i.freight_value]

\* Mutant: ON CONFLICT (order_id, order_item_id) DO NOTHING.
insert_fact_items_set_DoNothing(t, EXCLUDED) == t

\* ON CONFLICT (order_id, order_item_id) DO UPDATE SET ...
insert_fact_items_set(t, EXCLUDED) ==
    [t EXCEPT !.price = EXCLUDED.price,
              !.freight_value = EXCLUDED.freight_value,
              !.order_status = EXCLUDED.order_status,
              !.delivered_customer_date_id = EXCLUDED.delivered_customer_date_id]

insert_fact_items ==
    /\ pc = "insert_fact_items"
    /\ LET joined == [j \in insert_fact_items_join |-> insert_fact_items_select(j)]
           proposed == Range(joined)
           keys == {"order_id", "order_item_id"}
       IN  IF CardinalityViolation(joined, keys)
           THEN /\ Raises("insert_fact_items", "CardinalityViolation")
                /\ fact_order_item' = fact_order_item
           ELSE /\ Completes("insert_fact_items")
                /\ fact_order_item' =
                     Untouched(fact_order_item, proposed, keys)
                     \cup {insert_fact_items_set(tx[1], tx[2]) :
                             tx \in Conflicts(fact_order_item, proposed, keys)}
                     \cup Inserted(fact_order_item, proposed, keys)
    /\ UNCHANGED <<data_dir, stage, dim_date, dim_customer, dim_seller,
                   dim_product, fact_payment, sk_seq, entry, before, runs>>

\* Mutant: raw_orders is joined without the ON condition.
insert_fact_payments_join_Cross ==
    [p : DOMAIN stage.raw_payments, o : DOMAIN stage.raw_orders]

\* FROM raw_payments p JOIN raw_orders o ON o.order_id = p.order_id
insert_fact_payments_join ==
    LET P == stage.raw_payments
        O == stage.raw_orders
    IN  {j \in [p : DOMAIN P, o : DOMAIN O] :
           SqlEq(O[j.o].order_id, P[j.p].order_id)}

insert_fact_payments_select(j) ==
    LET p == stage.raw_payments[j.p]
        o == stage.raw_orders[j.o]
    IN  [order_id |-> p.order_id,
         payment_sequential |-> p.payment_sequential,
         payment_type |-> p.payment_type,
         payment_installments |-> p.payment_installments,
         payment_value |-> p.payment_value,
         purchase_date_id |-> DATE(o.order_purchase_timestamp)]

\* Mutant: the conflict replaces the whole row.
insert_fact_payments_set_WholeRow(t, EXCLUDED) == EXCLUDED

\* ON CONFLICT (order_id, payment_sequential) DO UPDATE SET ...
insert_fact_payments_set(t, EXCLUDED) ==
    [t EXCEPT !.payment_type = EXCLUDED.payment_type,
              !.payment_installments = EXCLUDED.payment_installments,
              !.payment_value = EXCLUDED.payment_value]

insert_fact_payments ==
    /\ pc = "insert_fact_payments"
    /\ LET joined == [j \in insert_fact_payments_join |-> insert_fact_payments_select(j)]
           proposed == Range(joined)
           keys == {"order_id", "payment_sequential"}
       IN  IF CardinalityViolation(joined, keys)
           THEN /\ Raises("insert_fact_payments", "CardinalityViolation")
                /\ fact_payment' = fact_payment
           ELSE /\ Completes("insert_fact_payments")
                /\ fact_payment' =
                     Untouched(fact_payment, proposed, keys)
                     \cup {insert_fact_payments_set(tx[1], tx[2]) :
                             tx \in Conflicts(fact_payment, proposed, keys)}
                     \cup Inserted(fact_payment, proposed, keys)
    /\ UNCHANGED <<data_dir, stage, dim_date, dim_customer, dim_seller,
                   dim_product, fact_order_item, sk_seq, entry, before, runs>>

\* ------------------------------------------------------------------ specification

Init ==
    /\ data_dir = Tables
    /\ stage = [t \in Tables |-> << >>]
    /\ dim_date = {}
    /\ dim_customer = {}
    /\ dim_seller = {}
    /\ dim_product = {}
    /\ fact_order_item = {}
    /\ fact_payment = {}
    /\ sk_seq = [customer |-> 0, seller |-> 0, product |-> 0]
    /\ pc = "idle"
    /\ entry = "none"
    /\ steps = {}
    /\ err = NoError
    /\ resolved = FALSE
    /\ before = Began(FALSE)
    /\ runs = 0
    /\ mon = "idle"
    /\ report = << >>
    /\ dq_err = "none"

Transform ==
    \/ transform_load_dw
    \/ upsert_dim_date
    \/ upsert_dim_customer
    \/ upsert_dim_seller
    \/ upsert_dim_product
    \/ insert_fact_items
    \/ insert_fact_payments

\* The pipeline over extracts that vary a dimension source.
Next == load_staging(DimSnapshots) \/ Transform

Spec == Init /\ [][Next]_vars

\* The pipeline over extracts that vary a fact source.
NextFact == load_staging(FactSnapshots) \/ Transform

SpecFact == Init /\ [][NextFact]_vars

\* ------------------------------------------------------------------ properties

\* The dimension tables with the statement that upserts each, its SELECT,
\* its conflict key, its surrogate key and its non-key columns.
Dimensions == {"dim_customer", "dim_seller", "dim_product"}

StepOf(d) ==
    CASE d = "dim_customer" -> "upsert_dim_customer"
      [] d = "dim_seller" -> "upsert_dim_seller"
      [] d = "dim_product" -> "upsert_dim_product"

TableOf(d) ==
    CASE d = "dim_customer" -> dim_customer
      [] d = "dim_seller" -> dim_seller
      [] d = "dim_product" -> dim_product

SelectOf(d) ==
    CASE d = "dim_customer" -> upsert_dim_customer_select
      [] d = "dim_seller" -> upsert_dim_seller_select
      [] d = "dim_product" -> upsert_dim_product_select

KeyOf(d) ==
    CASE d = "dim_customer" -> "customer_id"
      [] d = "dim_seller" -> "seller_id"
      [] d = "dim_product" -> "product_id"

SkOf(d) ==
    CASE d = "dim_customer" -> "customer_sk"
      [] d = "dim_seller" -> "seller_sk"
      [] d = "dim_product" -> "product_sk"

ColumnsOf(d) ==
    CASE d = "dim_customer" -> {"customer_unique_id", "zip_prefix", "city", "state"}
      [] d = "dim_seller" -> {"zip_prefix", "city", "state"}
      [] d = "dim_product" -> {"category_name", "category_name_en", "weight_g",
                               "length_cm", "height_cm", "width_cm"}

\* The upsert of dimension d returned in this invocation, and these are a
\* row t it found in the table and the staging row x that hit t's key.
Hit(d, t, x) ==
    /\ StepOf(d) \in steps
    /\ t \in before[d]
    /\ x \in SelectOf(d)
    /\ x[KeyOf(d)] = t[KeyOf(d)]

\* The rows of dimension d that now carry t's natural key.
Stored(d, t) == {u \in TableOf(d) : u[KeyOf(d)] = t[KeyOf(d)]}

C2_NeverNullAgain ==
    [][\A d \in Dimensions : \A t \in TableOf(d) : \A c \in ColumnsOf(d) :
         t[c] # NULL =>
           /\ \E u \in TableOf(d)' : u[KeyOf(d)] = t[KeyOf(d)]
           /\ \A u \in TableOf(d)' : u[KeyOf(d)] = t[KeyOf(d)] => u[c] # NULL]_vars

\* An upsert hit an existing row with a staging row that is null in a
\* column the row had a value for, and the value is still there.
C2_Witness ==
    \E d \in Dimensions : \E t \in before[d] : \E x \in SelectOf(d) :
      /\ Hit(d, t, x)
      /\ \E c \in ColumnsOf(d) :
           /\ x[c] = NULL /\ t[c] # NULL
           /\ \E u \in Stored(d, t) : u[c] = t[c]

\* The statement s was executed in this invocation: it returned or raised.
Attempted(s) == s \in steps \/ err.at = s

\* No two rows of a dimension table share a natural key.
OneRowPerKey ==
    /\ \A t, u \in dim_date : t.date_id = u.date_id => t = u
    /\ \A d \in Dimensions : \A t, u \in TableOf(d) :
         t[KeyOf(d)] = u[KeyOf(d)] => t = u

\* C3: when the dimension upserts have already run against the staging
\* contents at hand, running them again leaves every dimension table as it
\* was: same rows, same surrogate keys, one row per natural key.
C3_Idempotent ==
    before.resolved =>
      /\ dim_date = before.dim_date
      /\ dim_customer = before.dim_customer
      /\ dim_seller = before.dim_seller
      /\ dim_product = before.dim_product
      /\ OneRowPerKey

\* The four upserts returned a second time over unchanged staging, each
\* over rows it had stored before, one of them with a null column.
C3_Witness ==
    /\ before.resolved
    /\ DimSteps \subseteq steps
    /\ dim_date # {}
    /\ \A d \in Dimensions : \E t \in before[d] : \E x \in SelectOf(d) : Hit(d, t, x)
    /\ \E d \in Dimensions : \E x \in SelectOf(d) : \E c \in ColumnsOf(d) : x[c] = NULL

\* Two staging rows of dimension d's source carry one natural key and
\* differ in an attribute.
DuplicateKey(d) ==
    \E x, y \in SelectOf(d) : x # y /\ x[KeyOf(d)] = y[KeyOf(d)]

\* C5 as the spec states it: over staging that holds a natural key twice
\* with differing attributes the upsert returns, and the dimension holds
\* one row for each staged key.
C5_DuplicatesTolerated ==
    \A d \in Dimensions :
      Attempted(StepOf(d)) /\ DuplicateKey(d) =>
        /\ err.at # StepOf(d)
        /\ \A x \in SelectOf(d) :
             Cardinality({u \in TableOf(d) : u[KeyOf(d)] = x[KeyOf(d)]}) = 1

\* The Dimension Resolver ran in this invocation: its last upsert
\* returned, or one of its upserts raised.
ResolverRan == "upsert_dim_product" \in steps \/ err.at \in DimSteps

\* C6 as the spec states it: after the Dimension Resolver runs every staged
\* natural key has a dimension row; a row's surrogate key never changes and
\* no two natural keys share one.
C6_SurrogateKeys ==
    \A d \in Dimensions :
      /\ ResolverRan => \A x \in SelectOf(d) :
                          \E u \in TableOf(d) : u[KeyOf(d)] = x[KeyOf(d)]
      /\ \A t \in before[d] :
           \E u \in TableOf(d) : u[KeyOf(d)] = t[KeyOf(d)] /\ u[SkOf(d)] = t[SkOf(d)]
      /\ \A t, u \in TableOf(d) : t[SkOf(d)] = u[SkOf(d)] => t[KeyOf(d)] = u[KeyOf(d)]

\* C9: when run() finds a CSV file missing, load_staging raises
\* FileNotFoundError for the first missing file of FILES, copies no file
\* after it, and the run ends there: no upsert or insert is executed and the
\* warehouse is as it was.
C9_MissingFileStops ==
    entry = "run" /\ data_dir # Tables =>
      /\ err.type = "FileNotFoundError"
      /\ pc = "idle"
      /\ steps = {}
      /\ before = Began(before.resolved)
      /\ \E i \in DOMAIN FILES :
           /\ FILES[i] \notin data_dir
           /\ \A j \in 1..(i - 1) : FILES[j] \in data_dir
           /\ err.at = FILES[i]
           /\ \A k \in i..Len(FILES) : stage[FILES[k]] = << >>

\* A run met a missing file after an earlier run had filled the warehouse,
\* and files before and after the missing one were there.
C9_Witness ==
    /\ entry = "run"
    /\ err.type = "FileNotFoundError"
    /\ err.at = "raw_products"
    /\ "raw_sellers" \in data_dir
    /\ stage.raw_orders # << >>
    /\ dim_customer # {} /\ fact_order_item # {} /\ fact_payment # {}

\* C10: in a run() no dimension upsert starts before load_staging returned
\* with every file copied, and no fact insert starts before the four
\* dimension upserts returned.
C10_Order ==
    /\ entry = "run" /\ (pc \in DimSteps \cup FactSteps
                         \/ steps \cap (DimSteps \cup FactSteps) # {}) =>
         "load_staging" \in steps /\ data_dir = Tables
    /\ pc \in FactSteps \/ steps \cap FactSteps # {} => DimSteps \subseteq steps

\* A run is about to insert payment facts, after inserting an item fact.
C10_Witness ==
    /\ entry = "run"
    /\ pc = "insert_fact_payments"
    /\ "insert_fact_items" \in steps
    /\ fact_order_item # {}

ItemKey == {"order_id", "order_item_id"}

PaymentKey == {"order_id", "payment_sequential"}

\* C4: once the Fact Builder has returned, each fact table holds one row per
\* composite key, and the row of every key staging resolves carries the
\* price, freight value, order status and payment value staging holds now,
\* whatever it carried before.
C4_LastWriteWins ==
    /\ \A t, u \in fact_order_item : SameKey(t, u, ItemKey) => t = u
    /\ \A t, u \in fact_payment : SameKey(t, u, PaymentKey) => t = u
    /\ "insert_fact_items" \in steps =>
         \A j \in insert_fact_items_join :
           \E t \in fact_order_item :
             /\ SameKey(t, insert_fact_items_select(j), ItemKey)
             /\ t.price = stage.raw_order_items[j.i].price
             /\ t.freight_value = stage.raw_order_items[j.i].freight_value
             /\ t.order_status = stage.raw_orders[j.o].order_status
    /\ "insert_fact_payments" \in steps =>
         \A j \in insert_fact_payments_join :
           \E t \in fact_payment :
             /\ SameKey(t, insert_fact_payments_select(j), PaymentKey)
             /\ t.payment_value = stage.raw_payments[j.p].payment_value

\* The Fact Builder returned over an item fact loaded by an earlier run
\* whose price and order status staging has changed since, and over a
\* payment fact loaded before.
C4_Witness ==
    /\ "insert_fact_payments" \in steps
    /\ \E t \in before.fact_order_item : \E u \in fact_order_item :
         SameKey(t, u, ItemKey) /\ t.price # u.price /\ t.order_status # u.order_status
    /\ \E t \in before.fact_payment : \E u \in fact_payment :
         SameKey(t, u, PaymentKey)

\* The staged item x resolves: staging holds its order, the order's
\* customer, its seller and its product, and each of the three has its
\* dimension row.
Resolves(x) ==
    /\ \E o \in Range(stage.raw_orders) :
         /\ o.order_id = x.order_id
         /\ \E c \in Range(stage.raw_customers) : c.customer_id = o.customer_id
         /\ \E c \in dim_customer : c.customer_id = o.customer_id
    /\ \E r \in Range(stage.raw_sellers) : r.seller_id = x.seller_id
    /\ \E r \in dim_seller : r.seller_id = x.seller_id
    /\ \E p \in Range(stage.raw_products) : p.product_id = x.product_id
    /\ \E p \in dim_product : p.product_id = x.product_id

\* The fact rows of a table that carry the composite key of item x.
FactsOf(tbl, x) == {t \in tbl : SameKey(t, x, ItemKey)}

\* A staging table insert_fact_items reads holds a natural key twice.
KeyTwice ==
    \E tk \in {<<"raw_order_items", ItemKey>>, <<"raw_orders", {"order_id"}>>,
               <<"raw_customers", {"customer_id"}>>, <<"raw_sellers", {"seller_id"}>>,
               <<"raw_products", {"product_id"}>>} :
      \E i, j \in DOMAIN stage[tk[1]] :
        i # j /\ SameKey(stage[tk[1]][i], stage[tk[1]][j], tk[2])

\* C7: an item whose order, customer, seller or product cannot be found
\* yields no fact row (a key only such items carry is left as it was);
\* insert_fact_items never raises because of it (it raises only over
\* staging that holds a natural key twice); and when it returns, every item
\* that resolves has its fact row.
C7_ReferentialExclusion ==
    Attempted("insert_fact_items") =>
      /\ \A x \in Range(stage.raw_order_items) :
           (\A y \in Range(stage.raw_order_items) :
              SameKey(x, y, ItemKey) => ~ Resolves(y))
           => FactsOf(fact_order_item, x) = FactsOf(before.fact_order_item, x)
      /\ err.at = "insert_fact_items" => KeyTwice
      /\ "insert_fact_items" \in steps =>
           \A x \in Range(stage.raw_order_items) :
             Resolves(x) => \E t \in FactsOf(fact_order_item, x) : t.price = x.price

\* insert_fact_items returned over staging that holds an item of a product
\* staging does not have, next to an item that resolves: the first has no
\* fact row, the second has one.
C7_Witness ==
    /\ "insert_fact_items" \in steps
    /\ \E x, y \in Range(stage.raw_order_items) :
         /\ \A p \in Range(stage.raw_products) : p.product_id # x.product_id
         /\ FactsOf(fact_order_item, x) = {}
         /\ Resolves(y)
         /\ FactsOf(fact_order_item, y) # {}

DateColumns ==
    {"purchase_date_id", "approved_date_id", "shipping_limit_date_id",
     "delivered_customer_date_id", "estimated_delivery_date_id"}

\* C8: every fact row references existing dimension rows: its customer,
\* seller and product surrogate keys, and each of its non-null dates.
C8_ReferentialIntegrity ==
    /\ \A t \in fact_order_item :
         /\ \E c \in dim_customer : c.customer_sk = t.customer_sk
         /\ \E r \in dim_seller : r.seller_sk = t.seller_sk
         /\ \E p \in dim_product : p.product_sk = t.product_sk
         /\ \A c \in DateColumns :
              t[c] # NULL => \E d \in dim_date : d.date_id = t[c]
    /\ \A t \in fact_payment :
         t.purchase_date_id # NULL =>
           \E d \in dim_date : d.date_id = t.purchase_date_id

\* Two runs have completed and left an item fact with a delivery date and
\* a payment fact.
C8_Witness ==
    /\ pc = "idle" /\ runs = MaxRuns /\ err = NoError
    /\ "insert_fact_payments" \in steps
    /\ fact_payment # {}
    /\ \E t \in fact_order_item : \A c \in DateColumns : t[c] # NULL

\* ------------------------------------------------------------------ monitor: inputs

\* Row universes for the monitor: what a CSV may hold, null keys, null
\* timestamps and out-of-domain values included.
DQCustomerRows ==
    [customer_id : {NULL, V("c1"), V("c2")}, customer_unique_id : {V("u1")},
     customer_zip_code_prefix : {V("01000")}, customer_city : {V("sao paulo")},
     customer_state : {NULL, V("SP"), V("XX")}]

DQOrderRows ==
    [order_id : {NULL, V("o1")}, customer_id : {V("c1")},
     order_status : {NULL, V("shipped"), V("delivered")},
     order_purchase_timestamp : {NULL, V(0)}, order_approved_at : {V(1)},
     order_delivered_customer_date : {NULL, V(6)},
     order_estimated_delivery_date : {NULL, V(4), V(8)}]

DQItemRows ==
    [order_id : {NULL, V("o1")}, order_item_id : {V(1), V(2)},
     product_id : {V("p1")}, seller_id : {V("s1")},
     shipping_limit_date : {V(4)}, price : {NULL, V(0), V(10)},
     freight_value : {V(5)}]

DQPaymentRows ==
    [order_id : {V("o1"), V("o2")}, payment_sequential : {NULL, V(1)},
     payment_type : {V("credit_card")}, payment_installments : {V(1)},
     payment_value : {V(15), V(16), V(40)}]

DQRows(t) ==
    CASE t = "raw_customers" -> DQCustomerRows
      [] t = "raw_orders" -> DQOrderRows
      [] t = "raw_order_items" -> DQItemRows
      [] t = "raw_payments" -> DQPaymentRows
      [] OTHER -> Rows(t)

\* The staging contents the monitor is run on: Baseline with one of the
\* tables it reads holding any rows of its universe, up to MaxRows of them.
DQSnapshots ==
    UNION {{[Baseline EXCEPT ![t] = s] : s \in SeqsUpTo(DQRows(t), MaxRows)} :
             t \in {"raw_customers", "raw_orders", "raw_order_items",
                    "raw_payments", "raw_sellers", "raw_products"}}

\* The warehouse run() leaves when DATA_DIR holds Baseline.
Loaded ==
    [dim_customer |->
       {[customer_id |-> V("c1"), customer_unique_id |-> V("u1"),
         zip_prefix |-> V("01000"), city |-> V("sao paulo"),
         state |-> V("SP"), customer_sk |-> 1]},
     dim_product |->
       {[product_id |-> V("p1"), category_name |-> V("beleza"),
         category_name_en |-> V("beauty"), weight_g |-> V(100),
         length_cm |-> V(10), height_cm |-> V(10), width_cm |-> V(10),
         product_sk |-> 1]},
     dim_seller |->
       {[seller_id |-> V("s1"), zip_prefix |-> V("02000"),
         city |-> V("santos"), state |-> V("SP"), seller_sk |-> 1]},
     dim_date |-> {DateRow(0), DateRow(2), DateRow(3), DateRow(4)},
     fact_payment |->
       {[order_id |-> V("o1"), payment_sequential |-> V(1),
         payment_type |-> V("credit_card"), payment_installments |-> V(1),
         payment_value |-> V(15), purchase_date_id |-> V(0)]},
     sk_seq |-> [customer |-> 1, seller |-> 1, product |-> 1],
     fact_order_item |->
       {[order_id |-> V("o1"), order_item_id |-> V(1), customer_sk |-> 1,
         seller_sk |-> 1, product_sk |-> 1, purchase_date_id |-> V(0),
         approved_date_id |-> V(0), shipping_limit_date_id |-> V(2),
         delivered_customer_date_id |-> NULL,
         estimated_delivery_date_id |-> V(4), order_status |-> V("shipped"),
         price |-> V(10), freight_value |-> V(5)]}]

\* The warehouse before the first run().
NotLoaded ==
    [dim_customer |-> {}, dim_product |-> {}, dim_seller |-> {},
     dim_date |-> {}, fact_payment |-> {}, fact_order_item |-> {},
     sk_seq |-> [customer |-> 0, seller |-> 0, product |-> 0]]

\* The warehouse tables completeness() reads, as the monitor may find them:
\* not loaded yet, loaded, loaded from an extract without the customer's
\* city, and loaded from an extract without order items.
WarehouseSnapshots ==
    {NotLoaded,
     Loaded,
     [Loaded EXCEPT !.dim_customer = {[r EXCEPT !.city = NULL] : r \in @}],
     [Loaded EXCEPT !.fact_order_item = {}]}

\* ------------------------------------------------------------------ monitor: rules

\* ROUND(100.0 * pass / rows, 2), in hundredths of a percent; NULL over no
\* rows (SUM and AVG of no rows are NULL, and NULL / 0 is NULL).
pass_pct(pass, rows) ==
    IF rows = 0 THEN NULL ELSE V((20000 * pass + rows) \div (2 * rows))

\* 100.0*SUM(CASE WHEN col IS NOT NULL THEN 1 ELSE 0 END)/COUNT(*) FROM tbl
completeness_pct(tbl, col) ==
    pass_pct(Cardinality({r \in tbl : r[col] # NULL}), Cardinality(tbl))

\* The rows of completeness(): feature -> completeness_pct.
completeness_sql ==
    ("fact_order_item.price" :> completeness_pct(fact_order_item, "price"))
    @@ ("fact_order_item.freight_value" :>
          completeness_pct(fact_order_item, "freight_value"))
    @@ ("fact_order_item.purchase_date_id" :>
          completeness_pct(fact_order_item, "purchase_date_id"))
    @@ ("dim_customer.city" :> completeness_pct(dim_customer, "city"))
    @@ ("dim_customer.state" :> completeness_pct(dim_customer, "state"))
    @@ ("dim_product.category_name" :>
          completeness_pct(dim_product, "category_name"))

\* COUNT(*) - COUNT(DISTINCT col): COUNT(DISTINCT col) leaves out the NULLs.
uniqueness_single(T, col) ==
    Len(T) - Cardinality({T[i][col] : i \in DOMAIN T} \ {NULL})

\* COUNT(*) - COUNT(DISTINCT (a, b)): a row value is counted whatever its
\* fields, and two row values with NULL in the same field are not distinct.
uniqueness_composite(T, a, b) ==
    Len(T) - Cardinality({<<T[i][a], T[i][b]>> : i \in DOMAIN T})

\* The rows of uniqueness(): entity -> duplicates.
uniqueness_sql ==
    ("raw_orders.order_id" :>
          V(uniqueness_single(stage.raw_orders, "order_id")))
    @@ ("raw_customers.customer_id" :>
          V(uniqueness_single(stage.raw_customers, "customer_id")))
    @@ ("raw_sellers.seller_id" :>
          V(uniqueness_single(stage.raw_sellers, "seller_id")))
    @@ ("raw_products.product_id" :>
          V(uniqueness_single(stage.raw_products, "product_id")))
    @@ ("raw_order_items(order_id,order_item_id)" :>
          V(uniqueness_composite(stage.raw_order_items,
                                 "order_id", "order_item_id")))
    @@ ("raw_payments(order_id,payment_sequential)" :>
          V(uniqueness_composite(stage.raw_payments,
                                 "order_id", "payment_sequential")))

valid_states ==
    {"AC", "AL", "AP", "AM", "BA", "CE", "DF", "ES", "GO", "MA", "MT", "MS",
     "MG", "PA", "PB", "PR", "PE", "PI", "RJ", "RN", "RS", "RO", "RR", "SC",
     "SP", "SE", "TO"}

\* a >= b in SQL: not true when either side is NULL.
SqlGe(a, b) == a # NULL /\ b # NULL /\ a[1] >= b[1]

\* The rows of validity(): rule -> pass_pct.
validity_sql ==
    LET I == stage.raw_order_items
        S == stage.raw_sellers
        C == stage.raw_customers
        P == stage.raw_products
    IN  ("price>0" :>
           pass_pct(Cardinality({i \in DOMAIN I :
                      I[i].price # NULL /\ I[i].price[1] > 0}), Len(I)))
        @@ ("freight>=0" :>
           pass_pct(Cardinality({i \in DOMAIN I :
                      SqlGe(I[i].freight_value, V(0))}), Len(I)))
        @@ ("seller_state in UF" :>
           pass_pct(Cardinality({i \in DOMAIN S :
                      /\ S[i].seller_state # NULL
                      /\ S[i].seller_state[1] \in valid_states}), Len(S)))
        @@ ("customer_state in UF" :>
           pass_pct(Cardinality({i \in DOMAIN C :
                      /\ C[i].customer_state # NULL
                      /\ C[i].customer_state[1] \in valid_states}), Len(C)))
        @@ ("dims>0 (produto)" :>
           pass_pct(Cardinality({i \in DOMAIN P :
                      /\ COALESCE(P[i].product_weight_g, V(1))[1] > 0
                      /\ COALESCE(P[i].product_length_cm, V(1))[1] > 0
                      /\ COALESCE(P[i].product_height_cm, V(1))[1] > 0
                      /\ COALESCE(P[i].product_width_cm, V(1))[1] > 0}), Len(P)))

\* Mutant: a row that is not 'delivered' fails the rule (ELSE 0).
delivered_has_date_ElseFails(r) ==
    IF SqlEq(r.order_status, V("delivered"))
    THEN IF r.order_delivered_customer_date # NULL THEN 1 ELSE 0
    ELSE 0

\* CASE WHEN order_status = 'delivered'
\*      THEN CASE WHEN order_delivered_customer_date IS NOT NULL THEN 1 ELSE 0 END
\*      ELSE 1 END
delivered_has_date(r) ==
    IF SqlEq(r.order_status, V("delivered"))
    THEN IF r.order_delivered_customer_date # NULL THEN 1 ELSE 0
    ELSE 1

\* CASE WHEN order_status = 'delivered'
\*      THEN CASE WHEN order_delivered_customer_date >= order_purchase_timestamp
\*                THEN 1 ELSE 0 END
\*      ELSE 1 END
delivered_after_purchase(r) ==
    IF SqlEq(r.order_status, V("delivered"))
    THEN IF SqlGe(r.order_delivered_customer_date, r.order_purchase_timestamp)
         THEN 1 ELSE 0
    ELSE 1

\* SUM(payment_value) of the raw_payments group of order_id o: NULL when no
\* row of the group has a value.
payments_total(o) ==
    LET P == stage.raw_payments
        G == {i \in DOMAIN P : P[i].order_id = o /\ P[i].payment_value # NULL}
    IN  IF G = {} THEN NULL
        ELSE V(Cardinality(UNION {{<<i, n>> : n \in 1..P[i].payment_value[1]} :
                                    i \in G}))

\* SUM(price + freight_value) of the raw_order_items group of order_id o.
items_total(o) ==
    LET I == stage.raw_order_items
        G == {i \in DOMAIN I : /\ I[i].order_id = o
                               /\ I[i].price # NULL
                               /\ I[i].freight_value # NULL}
    IN  IF G = {} THEN NULL
        ELSE V(Cardinality(UNION {{<<i, n>> : n \in 1..(I[i].price[1]
                                                 + I[i].freight_value[1])} :
                                    i \in G}))

\* The rows of consistency(): rule -> pass_pct.
consistency_sql ==
    LET O == stage.raw_orders
        I == stage.raw_order_items
        P == stage.raw_payments
        IO == {j \in (DOMAIN I) \X (DOMAIN O) :
                 SqlEq(O[j[2]].order_id, I[j[1]].order_id)}
        PI == ({P[i].order_id : i \in DOMAIN P}
               \cap {I[i].order_id : i \in DOMAIN I}) \ {NULL}
    IN  ("delivered_has_date" :>
           pass_pct(Cardinality({i \in DOMAIN O : delivered_has_date(O[i]) = 1}),
                    Len(O)))
        @@ ("delivered_after_purchase" :>
           pass_pct(Cardinality({i \in DOMAIN O :
                                   delivered_after_purchase(O[i]) = 1}),
                    Len(O)))
        @@ ("shipping_limit_after_purchase" :>
           pass_pct(Cardinality({j \in IO :
                                   SqlGe(I[j[1]].shipping_limit_date,
                                         O[j[2]].order_purchase_timestamp)}),
                    Cardinality(IO)))
        @@ ("sum(payments)~sum(items)" :>
           pass_pct(Cardinality({o \in PI :
                      /\ payments_total(o) # NULL
                      /\ items_total(o) # NULL
                      /\ payments_total(o)[1] - items_total(o)[1] <= 1
                      /\ items_total(o)[1] - payments_total(o)[1] <= 1}),
                    Cardinality(PI)))

\* a / b as a fraction in lowest terms (b > 0).
Fraction(a, b) ==
    LET g == CHOOSE d \in 1..b :
               /\ a % d = 0 /\ b % d = 0
               /\ \A e \in (d + 1)..b : ~ (a % e = 0 /\ b % e = 0)
    IN  <<a \div g, b \div g>>

\* sql_lead: WHERE order_delivered_customer_date IS NOT NULL
\*             AND order_purchase_timestamp IS NOT NULL
timeliness_lead_rows ==
    {i \in DOMAIN stage.raw_orders :
       /\ stage.raw_orders[i].order_delivered_customer_date # NULL
       /\ stage.raw_orders[i].order_purchase_timestamp # NULL}

\* lead_df: the raw_orders row -> its lead_time_days.
timeliness_lead ==
    [i \in timeliness_lead_rows |->
       DATE(stage.raw_orders[i].order_delivered_customer_date)[1]
       - DATE(stage.raw_orders[i].order_purchase_timestamp)[1]]

\* Mutant: sql_ontime without its WHERE clause.
timeliness_ontime_rows_NoWhere == DOMAIN stage.raw_orders

\* sql_ontime: WHERE order_delivered_customer_date IS NOT NULL
\*               AND order_estimated_delivery_date IS NOT NULL
timeliness_ontime_rows ==
    {i \in DOMAIN stage.raw_orders :
       /\ stage.raw_orders[i].order_delivered_customer_date # NULL
       /\ stage.raw_orders[i].order_estimated_delivery_date # NULL}

\* ontime_df: 100.0*AVG(CASE WHEN delivered <= estimated THEN 1 ELSE 0 END),
\* not rounded; NULL over no rows.
timeliness_ontime ==
    LET O == stage.raw_orders
        R == timeliness_ontime_rows
    IN  IF R = {} THEN NULL
        ELSE V(Fraction(100 * Cardinality({i \in R :
                          SqlGe(O[i].order_estimated_delivery_date,
                                O[i].order_delivered_customer_date)}),
                        Cardinality(R)))

\* ------------------------------------------------------------------ monitor: main()

\* plt.bar(df[x], df[y]): a result column that is NULL in every row reaches
\* pandas as an object column of None, which the bar heights cannot be
\* computed from (TypeError); with a number in some row the column is float
\* and its NULLs are NaN, which are drawn as no bar.
save_bar_raises(df) ==
    DOMAIN df # {} /\ \A k \in DOMAIN df : df[k] = NULL

\* One of the first four functions of main(): run the query, write the CSV,
\* draw the chart; an exception of the chart leaves main().
Evaluated(f, csv, df, next) ==
    /\ report' = report @@ (csv :> df)
    /\ IF save_bar_raises(df)
       THEN mon' = "aborted" /\ dq_err' = f
       ELSE mon' = next /\ dq_err' = dq_err
    /\ UNCHANGED etl

main ==
    /\ mon = "idle"
    /\ mon' = "completeness"
    /\ report' = << >>
    /\ dq_err' = "none"
    /\ UNCHANGED etl

completeness ==
    /\ mon = "completeness"
    /\ Evaluated("completeness", "completeness.csv",
                 completeness_sql, "uniqueness")

uniqueness ==
    /\ mon = "uniqueness"
    /\ Evaluated("uniqueness", "uniqueness.csv", uniqueness_sql, "validity")

validity ==
    /\ mon = "validity"
    /\ Evaluated("validity", "validity.csv", validity_sql, "consistency")

consistency ==
    /\ mon = "consistency"
    /\ Evaluated("consistency", "consistency.csv", consistency_sql, "timeliness")

\* Both CSVs are written before the charts; the bar chart of the on-time
\* rate is drawn from the one-row ontime_df.
timeliness ==
    /\ mon = "timeliness"
    /\ report' = report @@ ("timeliness_leadtime.csv" :> timeliness_lead)
                        @@ ("timeliness_ontime.csv" :>
                              ("ontime_pct" :> timeliness_ontime))
    /\ IF save_bar_raises("on_time_delivery_rate" :> timeliness_ontime)
       THEN mon' = "aborted" /\ dq_err' = "timeliness"
       ELSE mon' = "done" /\ dq_err' = dq_err
    /\ UNCHANGED etl

\* The database as the monitor finds it: never loaded; or loaded from
\* Baseline, DATA_DIR then reloaded from any extract of DQSnapshots; or
\* holding Baseline in staging and a warehouse of WarehouseSnapshots.
InitDQ ==
    /\ \E s \in {[t \in Tables |-> << >>]} \cup DQSnapshots,
          w \in WarehouseSnapshots :
         /\ \/ s = [t \in Tables |-> << >>] /\ w = NotLoaded
            \/ s \in DQSnapshots /\ w = Loaded
            \/ s = Baseline /\ w # NotLoaded
         /\ stage = s
         /\ dim_date = w.dim_date
         /\ dim_customer = w.dim_customer
         /\ dim_seller = w.dim_seller
         /\ dim_product = w.dim_product
         /\ fact_order_item = w.fact_order_item
         /\ fact_payment = w.fact_payment
         /\ sk_seq = w.sk_seq
    /\ data_dir = Tables
    /\ pc = "idle"
    /\ entry = "none"
    /\ steps = {}
    /\ err = NoError
    /\ resolved = FALSE
    /\ before = Began(FALSE)
    /\ runs = 0
    /\ mon = "idle"
    /\ report = << >>
    /\ dq_err = "none"

NextDQ ==
    \/ main
    \/ completeness
    \/ uniqueness
    \/ validity
    \/ consistency
    \/ timeliness

\* The monitor over a database at rest.
SpecDQ == InitDQ /\ [][NextDQ]_vars

\* ------------------------------------------------------------------ properties of the monitor

\* The staging entities of uniqueness(), with their natural key.
UniquenessEntities ==
    ("raw_orders.order_id" :> [table |-> "raw_orders", key |-> {"order_id"}])
    @@ ("raw_customers.customer_id" :>
          [table |-> "raw_customers", key |-> {"customer_id"}])
    @@ ("raw_sellers.seller_id" :>
          [table |-> "raw_sellers", key |-> {"seller_id"}])
    @@ ("raw_products.product_id" :>
          [table |-> "raw_products", key |-> {"product_id"}])
    @@ ("raw_order_items(order_id,order_item_id)" :>
          [table |-> "raw_order_items", key |-> {"order_id", "order_item_id"}])
    @@ ("raw_payments(order_id,payment_sequential)" :>
          [table |-> "raw_payments", key |-> {"order_id", "payment_sequential"}])

\* C11 (as claimed): for every entity of uniqueness() the reported value is
\* the number of rows minus the number of distinct natural keys the rows
\* carry (a null key being a key like any other), is not negative, and is
\* zero exactly when no two rows share their key.
C11_DuplicateCount ==
    "uniqueness.csv" \in DOMAIN report =>
      \A e \in DOMAIN UniquenessEntities :
        LET T == stage[UniquenessEntities[e].table]
            K == UniquenessEntities[e].key
            KeyAt(i) == [k \in K |-> T[i][k]]
            n == report["uniqueness.csv"][e][1]
        IN  /\ n = Len(T) - Cardinality({KeyAt(i) : i \in DOMAIN T})
            /\ n >= 0
            /\ n = 0 <=> \A i, j \in DOMAIN T : i # j => KeyAt(i) # KeyAt(j)

\* The output files of main().
DQFiles ==
    {"completeness.csv", "uniqueness.csv", "validity.csv", "consistency.csv",
     "timeliness_leadtime.csv", "timeliness_ontime.csv"}

\* Some fraction rule evaluated so far had no rows: its result is NULL.
SomeRuleUndefined ==
    \E f \in DOMAIN report \cap {"completeness.csv", "validity.csv",
                                 "consistency.csv", "timeliness_ontime.csv"} :
      \E k \in DOMAIN report[f] : report[f][k] = NULL

\* C12 (as claimed): when a fraction rule has no rows its result is
\* undefined, nothing is raised, and main() evaluates the rules of every
\* category: once main() has ended after an undefined result, it ended
\* without an exception and with all output files written.
C12_UndefinedNotRaised ==
    (mon \in {"done", "aborted"} /\ SomeRuleUndefined)
      => (dq_err = "none" /\ DOMAIN report = DQFiles)

\* No raw_orders row satisfies the antecedent order_status = 'delivered'.
NoneDelivered ==
    \A i \in DOMAIN stage.raw_orders :
      stage.raw_orders[i].order_status # V("delivered")

\* C13: a consistency rule with an antecedent (delivered_has_date,
\* delivered_after_purchase) over a non-empty raw_orders none of whose rows
\* is 'delivered' reports 100.00, whatever the delivery and purchase
\* timestamps of the rows (null included).
C13_VacuousConsistency ==
    ("consistency.csv" \in DOMAIN report /\ stage.raw_orders # << >>
       /\ NoneDelivered)
      => /\ report["consistency.csv"]["delivered_has_date"] = V(10000)
         /\ report["consistency.csv"]["delivered_after_purchase"] = V(10000)

\* C13 witness: consistency() has run over orders none of which is
\* 'delivered', one with a null status, one without a delivery date and one
\* without a purchase timestamp.
C13_Witness ==
    /\ "consistency.csv" \in DOMAIN report
    /\ NoneDelivered
    /\ \E i, j \in DOMAIN stage.raw_orders :
         /\ stage.raw_orders[i].order_status = NULL
         /\ stage.raw_orders[i].order_delivered_customer_date = NULL
         /\ stage.raw_orders[j].order_status = V("shipped")
         /\ stage.raw_orders[j].order_purchase_timestamp = NULL
    /\ report["consistency.csv"]["delivered_has_date"] = V(10000)

\* The raw_orders rows that have both column a and column b.
HasBoth(a, b) ==
    {i \in DOMAIN stage.raw_orders :
       stage.raw_orders[i][a] # NULL /\ stage.raw_orders[i][b] # NULL}

\* The timestamps timeliness() references.
TimelinessColumns ==
    {"order_purchase_timestamp", "order_delivered_customer_date",
     "order_estimated_delivery_date"}

\* C14 (as claimed): a raw_orders row missing any of the three timestamps
\* is in neither the lead-time distribution nor the on-time denominator.
C14_MissingAnyExcludedFromBoth ==
    "timeliness_leadtime.csv" \in DOMAIN report =>
      \A i \in DOMAIN stage.raw_orders :
        (\E c \in TimelinessColumns : stage.raw_orders[i][c] = NULL)
          => /\ i \notin DOMAIN report["timeliness_leadtime.csv"]
             /\ i \notin timeliness_ontime_rows

\* C14 (amended): each output counts exactly the rows that have the two
\* timestamps it references: the lead-time distribution has one entry for
\* each row with purchase and delivery timestamps, and the on-time rate is
\* the share of on-time rows among those with delivery and estimated
\* timestamps (undefined when there is none).
C14_ExcludedPerMetric ==
    "timeliness_leadtime.csv" \in DOMAIN report =>
      LET O == stage.raw_orders
          R == HasBoth("order_delivered_customer_date",
                       "order_estimated_delivery_date")
          onTime == {i \in R : O[i].order_delivered_customer_date[1]
                                 <= O[i].order_estimated_delivery_date[1]}
      IN  /\ DOMAIN report["timeliness_leadtime.csv"] =
               HasBoth("order_purchase_timestamp",
                       "order_delivered_customer_date")
          /\ report["timeliness_ontime.csv"]["ontime_pct"] =
               IF R = {} THEN NULL
               ELSE V(Fraction(100 * Cardinality(onTime), Cardinality(R)))

\* C14 witness: timeliness() has run over a row without purchase timestamp
\* that counts for the on-time rate and a row without estimated date that
\* is in the lead-time distribution.
C14_Witness ==
    /\ "timeliness_leadtime.csv" \in DOMAIN report
    /\ \E i, j \in DOMAIN stage.raw_orders :
         /\ stage.raw_orders[i].order_purchase_timestamp = NULL
         /\ i \in timeliness_ontime_rows
         /\ stage.raw_orders[j].order_estimated_delivery_date = NULL
         /\ j \in DOMAIN report["timeliness_leadtime.csv"]
    /\ report["timeliness_ontime.csv"]["ontime_pct"] # NULL

\* ------------------------------------------------------------------ properties of the payment facts

\* The candidate fact rows insert_fact_payments derives from the i-th
\* raw_payments row.
CandidatesOf(i) == {j \in insert_fact_payments_join : j.p = i}

\* The raw_orders rows that carry the order_id of the i-th raw_payments row.
OrdersOf(i) ==
    {k \in DOMAIN stage.raw_orders :
       stage.raw_orders[k].order_id = stage.raw_payments[i].order_id}

\* C15 (as claimed): every raw_payments row yields exactly one candidate
\* fact row, whatever raw_payments and raw_orders hold.
C15_OneToOne ==
    Attempted("insert_fact_payments") =>
      \A i \in DOMAIN stage.raw_payments : Cardinality(CandidatesOf(i)) = 1

\* C15 (amended): every raw_payments row yields one candidate per raw_orders
\* row with its order_id (one when the order is staged once, none when it is
\* not staged), each with the payment's key and values as they are; when
\* the insert returns, fact_payment holds those values under that key.
C15_OnePerOrderRow ==
    Attempted("insert_fact_payments") =>
      \A i \in DOMAIN stage.raw_payments :
        LET p == stage.raw_payments[i]
            Carries(f) ==
              /\ SameKey(f, p, PaymentKey)
              /\ f.payment_type = p.payment_type
              /\ f.payment_installments = p.payment_installments
              /\ f.payment_value = p.payment_value
        IN  /\ Cardinality(CandidatesOf(i)) = Cardinality(OrdersOf(i))
            /\ \A j \in CandidatesOf(i) : Carries(insert_fact_payments_select(j))
            /\ ("insert_fact_payments" \in steps /\ OrdersOf(i) # {})
                 => \E f \in fact_payment : Carries(f)

\* C15 witness: insert_fact_payments has returned over two payments, one of
\* a staged order, now a fact, and one of an order that is not staged, which
\* is no fact.
C15_Witness ==
    /\ "insert_fact_payments" \in steps
    /\ \E i, k \in DOMAIN stage.raw_payments :
         /\ Cardinality(OrdersOf(i)) = 1
         /\ \E f \in fact_payment : SameKey(f, stage.raw_payments[i], PaymentKey)
         /\ OrdersOf(k) = {}
         /\ ~ \E f \in fact_payment : SameKey(f, stage.raw_payments[k], PaymentKey)

\* ------------------------------------------------------------------ re-pointed orders

\* Row universes of an order and its item that a later extract re-points:
\* another customer, purchase or estimated date, another product or price.
FrameOrderRows ==
    [order_id : {V("o1")}, customer_id : {V("c1"), V("c2")},
     order_status : {V("shipped"), V("delivered")},
     order_purchase_timestamp : {V(0), V(2)}, order_approved_at : {V(1)},
     order_delivered_customer_date : {NULL},
     order_estimated_delivery_date : {V(8), V(10)}]

FrameItemRows ==
    [order_id : {V("o1")}, order_item_id : {V(1)},
     product_id : {V("p1"), V("p2")}, seller_id : {V("s1")},
     shipping_limit_date : {V(4)}, price : {V(10), V(20)},
     freight_value : {V(5)}]

\* Extracts with two customers and two products, one order of one item.
FrameSnapshots ==
    {[Baseline EXCEPT
        !.raw_customers = <<@[1], [@[1] EXCEPT !.customer_id = V("c2")]>>,
        !.raw_products = <<@[1], [@[1] EXCEPT !.product_id = V("p2")]>>,
        !.raw_orders = <<o>>,
        !.raw_order_items = <<i>>] : o \in FrameOrderRows, i \in FrameItemRows}

\* The pipeline over extracts that re-point an order.
NextFrame == load_staging(FrameSnapshots) \/ Transform

SpecFrame == Init /\ [][NextFrame]_vars

\* The columns of fact_order_item that are neither key nor in the SET list.
FrameColumns ==
    {"customer_sk", "seller_sk", "product_sk", "purchase_date_id",
     "approved_date_id", "shipping_limit_date_id",
     "estimated_delivery_date_id"}

\* C16: no step changes customer_sk, seller_sk, product_sk or the purchase,
\* approved, shipping-limit and estimated date of an existing
\* fact_order_item row, nor purchase_date_id of an existing fact_payment
\* row: a hit rewrites only the columns of the SET list.
C16_Frame ==
    [][/\ \A t \in fact_order_item : \E u \in fact_order_item' :
            /\ SameKey(u, t, ItemKey)
            /\ \A c \in FrameColumns : u[c] = t[c]
       /\ \A t \in fact_payment : \E u \in fact_payment' :
            /\ SameKey(u, t, PaymentKey)
            /\ u.purchase_date_id = t.purchase_date_id]_vars

\* C16 witness: a second run has hit the item and the payment of an order
\* that staging now gives another customer, product and purchase date: the
\* item fact has the new price and the old references, the payment fact
\* the old purchase date.
C16_Witness ==
    /\ "insert_fact_payments" \in steps
    /\ \E t \in fact_order_item, b \in before.fact_order_item,
          dc \in dim_customer, dp \in dim_product :
         /\ SameKey(t, b, ItemKey)
         /\ t.price # b.price
         /\ t.price = stage.raw_order_items[1].price
         /\ dc.customer_id = stage.raw_orders[1].customer_id
         /\ dc.customer_sk # t.customer_sk
         /\ dp.product_id = stage.raw_order_items[1].product_id
         /\ dp.product_sk # t.product_sk
         /\ t.purchase_date_id # DATE(stage.raw_orders[1].order_purchase_timestamp)
         /\ t.purchase_date_id = b.purchase_date_id
    /\ \E f \in fact_payment, g \in before.fact_payment :
         /\ SameKey(f, g, PaymentKey)
         /\ f.purchase_date_id = g.purchase_date_id
         /\ f.purchase_date_id # DATE(stage.raw_orders[1].order_purchase_timestamp)

====
